---- MODULE Spec2Model ----
(***************************************************************************)
(* Model of the connesus-dao contract (connesus-dao/src/lib.rs): the       *)
(* persistent Contract struct, its initialisers new and migrate, and the   *)
(* fungible-token receiver ft_on_transfer with its four transfer purposes. *)
(*                                                                         *)
(* lib.rs calls into the modules delegation, donations, proposals, bounty  *)
(* and utils, whose sources are not part of src/.  The operators           *)
(* standing for them (assert_account_id, internal_delegate, open_donate,   *)
(* proposal_donate, create_bounty, add_proposal, the Versioned wrappers)   *)
(* follow the written specification and are marked so where defined.       *)
(*                                                                         *)
(* Option<T> is modelled as a sequence of length at most one: <<>> is      *)
(* None and <<x>> is Some(x).  A LookupMap is a function whose DOMAIN is   *)
(* the set of keys present.                                                *)
(*                                                                         *)
(* The attribute on the FungibleTokenReceiver impl is commented out        *)
(* (lib.rs 132), so lib.rs itself exports no ft_on_transfer entry point;   *)
(* the notification as a call of the host, with the state loaded before    *)
(* and written back after (Transfer, commit), follows the specification.   *)
(***************************************************************************)
EXTENDS Integers, Sequences, FiniteSets, TLC

VARIABLES
    dao_metadata,             \* Contract.dao_metadata
    locked_amount,            \* Contract.locked_amount
    token_account_id,         \* Contract.token_account_id
    total_delegation_amount,  \* Contract.total_delegation_amount
    delegations,              \* Contract.delegations : AccountId -> Balance
    last_proposal_id,         \* Contract.last_proposal_id
    proposals,                \* Contract.proposals : u64 -> VersionedProposal
    donations,                \* Contract.donations : AccountId -> Balance
    owner_id,                 \* Contract.owner_id
    last_bounty_id,           \* Contract.last_bounty_id
    bounties,                 \* Contract.bounties : u64 -> VersionedBounty
    state_exists,             \* env::state_exists: TRUE once the account holds a
                              \* persisted Contract; while FALSE the eleven
                              \* variables above hold NoContract and stand
                              \* for nothing
    overflow_checks,          \* the build: TRUE when it checks arithmetic for
                              \* overflow (debug, or overflow-checks = true),
                              \* FALSE when it does not (plain release)
    pre,                      \* the Contract as it was when the last call began
    call                      \* the last call: entry point, inputs, panic message
                              \* ("" when it returned), returned value, and
                              \* whether the handler had written to the Contract

vars == <<dao_metadata, locked_amount, token_account_id, total_delegation_amount,
          delegations, last_proposal_id, proposals, donations, owner_id,
          last_bounty_id, bounties, state_exists, overflow_checks, pre, call>>

----------------------------------------------------------------------------
(* Bounds of the model. *)

\* Stand-in for u128::MAX, the largest Balance.
BalanceMax == 2
\* add_proposal is enabled while fewer than this many proposals exist.
MaxProposals == 1
\* CreateBounty calls are issued while fewer than this many bounties exist.
MaxBounties == 2

Users == {"alice.near", "bob.near"}
TokenAccounts == {"token.near", "wrap.near"}
\* The token contract the DAO is constructed with, and another one.
ConfiguredToken == "token.near"
OtherToken == "wrap.near"
Metadatas == {"connesus"}
Deployers == {"dao.near"}
Amounts == {1, 2}
ProposalIds == 0..MaxProposals
ProposalKinds == {"Donate", "Other"}

None == <<>>
Some(x) == <<x>>

----------------------------------------------------------------------------
(* The Contract struct as one value, and LookupMap access. *)

Self ==
    [dao_metadata |-> dao_metadata,
     locked_amount |-> locked_amount,
     token_account_id |-> token_account_id,
     total_delegation_amount |-> total_delegation_amount,
     delegations |-> delegations,
     last_proposal_id |-> last_proposal_id,
     proposals |-> proposals,
     donations |-> donations,
     owner_id |-> owner_id,
     last_bounty_id |-> last_bounty_id,
     bounties |-> bounties]

EmptyMap == [k \in {} |-> 0]

\* What the field variables hold while the account has no persisted state.
NoContract ==
    [dao_metadata |-> "",
     locked_amount |-> 0,
     token_account_id |-> "",
     total_delegation_amount |-> 0,
     delegations |-> EmptyMap,
     last_proposal_id |-> 0,
     proposals |-> EmptyMap,
     donations |-> EmptyMap,
     owner_id |-> "",
     last_bounty_id |-> 0,
     bounties |-> EmptyMap]

\* What the account persists, as an Option<Contract>: None before the first
\* initialiser has returned.
Storage == IF state_exists THEN Some(Self) ELSE None

\* LookupMap::get(k).unwrap_or(d)
get_or(map, k, d) == IF k \in DOMAIN map THEN map[k] ELSE d

\* LookupMap::insert(k, v)
insert(map, k, v) == [x \in DOMAIN map \cup {k} |-> IF x = k THEN v ELSE map[x]]

\* Outcome of a (part of a) call: panic is "" when it ran to its end, else
\* the panic message; self is the Contract as written up to that point.
Ok(self) == [panic |-> "", self |-> self]
Panic(reason, self) == [panic |-> reason, self |-> self]

ERR_TOKEN_ACCOUNT == "ERR_INVALID_TOKEN_ACCOUNT"

\* `+=` on a Balance (lib.rs 146).  The build profile is not part of the
\* sources: a build with overflow checks panics with ERR_OVERFLOW on a sum
\* above the largest Balance, a build without them stores the sum modulo
\* 2^128.
ERR_OVERFLOW == "attempt to add with overflow"
add_overflows(a, b) == a + b > BalanceMax
wrapping_add(a, b) == (a + b) % (BalanceMax + 1)

\* new recording the token contract as owner and the caller as token
\* account.
new_swapped(metadata, token_contract_id, predecessor_account_id) ==
    [dao_metadata |-> metadata,
     locked_amount |-> 0,
     token_account_id |-> predecessor_account_id,
     total_delegation_amount |-> 0,
     delegations |-> [k \in {} |-> 0],
     last_proposal_id |-> 0,
     proposals |-> [k \in {} |-> 0],
     donations |-> [k \in {} |-> 0],
     owner_id |-> token_contract_id,
     last_bounty_id |-> 0,
     bounties |-> [k \in {} |-> 0]]

----------------------------------------------------------------------------
(* Contract::new, lib.rs 71-88.  The owner is the predecessor account of   *)
(* the constructor call.                                                   *)

new(metadata, token_contract_id, predecessor_account_id) ==
    [dao_metadata |-> metadata,
     locked_amount |-> 0,
     token_account_id |-> token_contract_id,
     total_delegation_amount |-> 0,
     delegations |-> EmptyMap,
     last_proposal_id |-> 0,
     proposals |-> EmptyMap,
     donations |-> EmptyMap,
     owner_id |-> predecessor_account_id,
     last_bounty_id |-> 0,
     bounties |-> EmptyMap]

\* #[init] (lib.rs 71): the exported new refuses to run on an account that
\* already holds state, and the Contract it returns is what gets persisted.
\* The outcome carries the persisted state as an Option<Contract>.
ERR_ALREADY_INITIALIZED == "The contract has already been initialized"

init_new(storage, metadata, token_contract_id, predecessor_account_id) ==
    IF storage # None
    THEN Panic(ERR_ALREADY_INITIALIZED, storage)
    ELSE Ok(Some(new(metadata, token_contract_id, predecessor_account_id)))

----------------------------------------------------------------------------
(* TransferPurpose and TransferArgs, lib.rs 106-124, and the decoding of   *)
(* the msg string (serde_json::from_str, lib.rs 140).                      *)
(*                                                                         *)
(* A msg is modelled as the JSON document it spells, each JSON value a     *)
(* record tagged with its JSON type; a msg that is not JSON text at all    *)
(* is JInvalid.  Numbers are integers (a u64 field takes no other).        *)

JNull == [json |-> "null"]
JString(s) == [json |-> "string", string |-> s]
JNumber(n) == [json |-> "number", number |-> n]
JObject(members) == [json |-> "object", object |-> members]
JArray(elements) == [json |-> "array", array |-> elements]
JInvalid == [json |-> "invalid"]

TransferPurpose == {"Delegate", "OpenDonate", "ProposalDonate", "CreateBounty"}

ERR_DECODE == "Not valid DelegateArgs"

\* AccountId (a String): a JSON string.
String_ok(v) == v.json = "string"

\* u64: a JSON integer that is not negative.
u64_ok(v) == v.json = "number" /\ v.number >= 0

\* TransferPurpose, an enum of unit variants: the variant name as a JSON
\* string, or an object whose one key is the variant name and whose value
\* is null.
TransferPurpose_ok(v) ==
    \/ v.json = "string" /\ v.string \in TransferPurpose
    \/ /\ v.json = "object"
       /\ Cardinality(DOMAIN v.object) = 1
       /\ \A k \in DOMAIN v.object : k \in TransferPurpose /\ v.object[k].json = "null"

TransferPurpose_from(v) ==
    IF v.json = "string" THEN v.string
    ELSE CHOOSE k \in DOMAIN v.object : TRUE

\* BountyInput (bounty module): an object that gives the payout token
\* account as a string under the key token; its other fields are outside
\* the model.
BountyInput_ok(v) ==
    /\ v.json = "object"
    /\ "token" \in DOMAIN v.object
    /\ String_ok(v.object.token)

BountyInput_from(v) == [token |-> v.object.token.string]

\* The fields of TransferArgs in the order of their declaration.
TransferArgs_fields == <<"delegate", "proposal", "transfer_type", "bounty_input">>

\* The JSON value a document gives for the i-th field of TransferArgs:
\* the member of that name of an object, the i-th element of an array.
TransferArgs_member(msg, i) ==
    IF msg.json = "array" THEN Some(msg.array[i])
    ELSE IF TransferArgs_fields[i] \in DOMAIN msg.object
         THEN Some(msg.object[TransferArgs_fields[i]])
         ELSE None

\* An Option field is None when the document gives nothing for it (its key
\* is absent from the object) and when it gives JSON null; any other value
\* must decode to the type of the field.
Option_is_none(found) == found = None \/ found[1].json = "null"

\* The derived Deserialize of TransferArgs: an object with at least the
\* keys delegate and transfer_type (an Option field whose key is absent
\* is None, other keys are ignored), or an array of exactly its four
\* fields in order; every value given must decode to the type of its field.
from_str_ok(msg) ==
    /\ msg.json \in {"object", "array"}
    /\ msg.json = "array" => Len(msg.array) = Len(TransferArgs_fields)
    /\ TransferArgs_member(msg, 1) # None
    /\ String_ok(TransferArgs_member(msg, 1)[1])
    /\ ~Option_is_none(TransferArgs_member(msg, 2)) =>
           u64_ok(TransferArgs_member(msg, 2)[1])
    /\ TransferArgs_member(msg, 3) # None
    /\ TransferPurpose_ok(TransferArgs_member(msg, 3)[1])
    /\ ~Option_is_none(TransferArgs_member(msg, 4)) =>
           BountyInput_ok(TransferArgs_member(msg, 4)[1])

u64_from(v) == v.number

from_str(msg) ==
    [delegate |-> TransferArgs_member(msg, 1)[1].string,
     proposal |-> IF Option_is_none(TransferArgs_member(msg, 2)) THEN None
                  ELSE Some(u64_from(TransferArgs_member(msg, 2)[1])),
     transfer_type |-> TransferPurpose_from(TransferArgs_member(msg, 3)[1]),
     bounty_input |-> IF Option_is_none(TransferArgs_member(msg, 4)) THEN None
                      ELSE Some(BountyInput_from(TransferArgs_member(msg, 4)[1]))]

----------------------------------------------------------------------------
(* Helpers of the modules utils, delegation, donations, proposals and      *)
(* bounty, written from the specification.                                 *)

\* utils::assert_account_id(account_id): a function of the account it is
\* given and of the environment of the call only (lib.rs 144, 149, 153,
\* 171 hand it no Contract).  It returns when the transfer comes from that
\* account, that is when the predecessor of the call is the account given
\* (the specification, sections 3 and 4.1: the check that a transfer
\* originates from the expected token contract).
assert_account_id(account_id, predecessor_account_id) ==
    predecessor_account_id = account_id

\* The helpers below keep what the specification states of them: an entry
\* grows by exactly the amount, and the entries of delegations sum to at
\* most total_delegation_amount.  A helper that keeps this cannot return
\* when a sum exceeds the largest Balance: it fails the call there, in
\* either build.

\* delegation::internal_delegate: delegations[account] += amount, and the
\* separately tracked total follows.
internal_delegate(self, account_id, amount) ==
    LET prev == get_or(self.delegations, account_id, 0) IN
    IF prev + amount > BalanceMax THEN Panic(ERR_OVERFLOW, self)
    ELSE LET s1 == [self EXCEPT !.delegations = insert(@, account_id, prev + amount)] IN
         IF s1.total_delegation_amount + amount > BalanceMax
         THEN Panic(ERR_OVERFLOW, s1)
         ELSE Ok([s1 EXCEPT !.total_delegation_amount = @ + amount])

\* donations::open_donate: donations[account] += amount.
open_donate(self, account_id, amount) ==
    LET prev == get_or(self.donations, account_id, 0) IN
    IF prev + amount > BalanceMax THEN Panic(ERR_OVERFLOW, self)
    ELSE Ok([self EXCEPT !.donations = insert(@, account_id, prev + amount)])

\* VersionedProposal::Default(proposal) and the conversion back
\* (From<VersionedProposal> for Proposal).
VersionedProposal_from(proposal) == [version |-> "Default", proposal |-> proposal]
VersionedProposal_into(versioned) == versioned.proposal

\* Proposal::donate on a Proposal value: its record for the donor grows by
\* the amount.  The result is the updated Proposal value.
proposal_donate(proposal_obj, account_id, amount) ==
    [proposal_obj EXCEPT !.donations =
        insert(@, account_id, get_or(@, account_id, 0) + amount)]

\* proposals::add_proposal: the new proposal takes the id last_proposal_id,
\* which then advances.
add_proposal(self, kind) ==
    [self EXCEPT
        !.proposals = insert(@, self.last_proposal_id,
                             VersionedProposal_from([kind |-> kind,
                                                     donations |-> EmptyMap])),
        !.last_proposal_id = @ + 1]

\* VersionedBounty::Default(bounty).
VersionedBounty_from(bounty) == [version |-> "Default", bounty |-> bounty]

\* bounty::create_bounty: the bounty takes the next sequential id.
create_bounty(self, bounty_input) ==
    [self EXCEPT
        !.bounties = insert(@, self.last_bounty_id,
                            VersionedBounty_from([token |-> bounty_input.token])),
        !.last_bounty_id = @ + 1]

----------------------------------------------------------------------------
(* ft_on_transfer, lib.rs 134-176: one operator per arm of the match on    *)
(* transfer_type.  Each arm yields Ok or Panic with the Contract as        *)
(* written up to that point.                                               *)

\* delegate_arm without the check of lib.rs 144.
delegate_arm_unchecked(self, predecessor_account_id, sender_id, amount, args) ==
    LET r == internal_delegate(self, args.delegate, amount) IN
    IF r.panic # "" THEN r
    ELSE IF overflow_checks /\ add_overflows(r.self.locked_amount, amount)
         THEN Panic(ERR_OVERFLOW, r.self)
         ELSE Ok([r.self EXCEPT !.locked_amount = wrapping_add(@, amount)])

\* delegate_arm without the statement of lib.rs 146.
delegate_arm_no_lock(self, predecessor_account_id, sender_id, amount, args) ==
    IF ~assert_account_id(self.token_account_id, predecessor_account_id)
    THEN Panic(ERR_TOKEN_ACCOUNT, self)
    ELSE internal_delegate(self, args.delegate, amount)

\* delegate_arm writing the delegation entry itself instead of calling
\* internal_delegate.
delegate_arm_direct(self, predecessor_account_id, sender_id, amount, args) ==
    IF ~assert_account_id(self.token_account_id, predecessor_account_id)
    THEN Panic(ERR_TOKEN_ACCOUNT, self)
    ELSE LET prev == get_or(self.delegations, args.delegate, 0) IN
         IF \/ add_overflows(prev, amount)
            \/ overflow_checks /\ add_overflows(self.locked_amount, amount)
         THEN Panic(ERR_OVERFLOW, self)
         ELSE Ok([self EXCEPT
                    !.delegations = insert(@, args.delegate, prev + amount),
                    !.locked_amount = wrapping_add(@, amount)])

\* delegate_arm adding the delegate's new balance, not the amount, to
\* locked_amount.
delegate_arm_lock_balance(self, predecessor_account_id, sender_id, amount, args) ==
    IF ~assert_account_id(self.token_account_id, predecessor_account_id)
    THEN Panic(ERR_TOKEN_ACCOUNT, self)
    ELSE LET r == internal_delegate(self, args.delegate, amount) IN
         IF r.panic # "" THEN r
         ELSE LET balance == r.self.delegations[args.delegate] IN
              IF overflow_checks /\ add_overflows(r.self.locked_amount, balance)
              THEN Panic(ERR_OVERFLOW, r.self)
              ELSE Ok([r.self EXCEPT !.locked_amount = wrapping_add(@, balance)])

\* delegate_arm taking the calling token contract as the configured one
\* instead of checking it.
delegate_arm_adopts_token(self, predecessor_account_id, sender_id, amount, args) ==
    LET adopted == [self EXCEPT !.token_account_id = predecessor_account_id]
        r == internal_delegate(adopted, args.delegate, amount)
    IN IF r.panic # "" THEN r
       ELSE IF overflow_checks /\ add_overflows(r.self.locked_amount, amount)
            THEN Panic(ERR_OVERFLOW, r.self)
            ELSE Ok([r.self EXCEPT !.locked_amount = wrapping_add(@, amount)])

\* lib.rs 143-147.  The addition of line 146 panics or wraps as the build
\* has it.
delegate_arm(self, predecessor_account_id, sender_id, amount, args) ==
    IF ~assert_account_id(self.token_account_id, predecessor_account_id)
    THEN Panic(ERR_TOKEN_ACCOUNT, self)
    ELSE LET r == internal_delegate(self, args.delegate, amount) IN
         IF r.panic # "" THEN r
         ELSE IF overflow_checks /\ add_overflows(r.self.locked_amount, amount)
              THEN Panic(ERR_OVERFLOW, r.self)
              ELSE Ok([r.self EXCEPT !.locked_amount = wrapping_add(@, amount)])

\* open_donate_arm crediting the delegate named in the message.
open_donate_arm_delegate(self, predecessor_account_id, sender_id, amount, args) ==
    IF ~assert_account_id(self.token_account_id, predecessor_account_id)
    THEN Panic(ERR_TOKEN_ACCOUNT, self)
    ELSE open_donate(self, args.delegate, amount)

\* open_donate_arm also adding the amount to locked_amount, as the
\* Delegate arm does.
open_donate_arm_locks(self, predecessor_account_id, sender_id, amount, args) ==
    IF ~assert_account_id(self.token_account_id, predecessor_account_id)
    THEN Panic(ERR_TOKEN_ACCOUNT, self)
    ELSE LET r == open_donate(self, sender_id, amount) IN
         IF r.panic # "" THEN r
         ELSE IF overflow_checks /\ add_overflows(r.self.locked_amount, amount)
              THEN Panic(ERR_OVERFLOW, r.self)
              ELSE Ok([r.self EXCEPT !.locked_amount = wrapping_add(@, amount)])

\* lib.rs 148-151
open_donate_arm(self, predecessor_account_id, sender_id, amount, args) ==
    IF ~assert_account_id(self.token_account_id, predecessor_account_id)
    THEN Panic(ERR_TOKEN_ACCOUNT, self)
    ELSE open_donate(self, sender_id, amount)

\* proposal_donate_arm donating whatever the kind of the proposal.
proposal_donate_arm_any_kind(self, predecessor_account_id, sender_id, amount, args) ==
    IF ~assert_account_id(self.token_account_id, predecessor_account_id)
    THEN Panic(ERR_TOKEN_ACCOUNT, self)
    ELSE IF args.proposal = None
    THEN Panic("PROPOSAL_ID_NOT_PROVIDED", self)
    ELSE LET proposal_id == args.proposal[1] IN
         IF proposal_id \notin DOMAIN self.proposals
         THEN Panic("ERR_NO_PROPOSAL", self)
         ELSE Ok(self)

\* proposal_donate_arm crediting the open donation ledger.
proposal_donate_arm_open_ledger(self, predecessor_account_id, sender_id, amount, args) ==
    IF ~assert_account_id(self.token_account_id, predecessor_account_id)
    THEN Panic(ERR_TOKEN_ACCOUNT, self)
    ELSE IF args.proposal = None
    THEN Panic("PROPOSAL_ID_NOT_PROVIDED", self)
    ELSE LET proposal_id == args.proposal[1] IN
         IF proposal_id \notin DOMAIN self.proposals
         THEN Panic("ERR_NO_PROPOSAL", self)
         ELSE LET proposal_obj == VersionedProposal_into(self.proposals[proposal_id]) IN
              IF proposal_obj.kind = "Donate"
              THEN open_donate(self, sender_id, amount)
              ELSE Panic("PROPOSAL_IS_NOT_DONATION_KIND", self)

\* proposal_donate_arm writing the donated proposal back under the newest
\* id instead of the id the message names.
proposal_donate_arm_newest(self, predecessor_account_id, sender_id, amount, args) ==
    IF ~assert_account_id(self.token_account_id, predecessor_account_id)
    THEN Panic(ERR_TOKEN_ACCOUNT, self)
    ELSE IF args.proposal = None
    THEN Panic("PROPOSAL_ID_NOT_PROVIDED", self)
    ELSE LET proposal_id == args.proposal[1] IN
         IF proposal_id \notin DOMAIN self.proposals
         THEN Panic("ERR_NO_PROPOSAL", self)
         ELSE LET proposal_obj == VersionedProposal_into(self.proposals[proposal_id]) IN
              IF proposal_obj.kind = "Donate"
              THEN LET donated == proposal_donate(proposal_obj, sender_id, amount) IN
                   Ok([self EXCEPT !.proposals =
                          insert(@, self.last_proposal_id - 1,
                                 VersionedProposal_from(donated))])
              ELSE Panic("PROPOSAL_IS_NOT_DONATION_KIND", self)

\* lib.rs 152-168.  proposal_obj is a value read out of the map; donate
\* updates that value, and the arm ends without an insert into
\* self.proposals, so the Contract it leaves is the one it found.
proposal_donate_arm(self, predecessor_account_id, sender_id, amount, args) ==
    IF ~assert_account_id(self.token_account_id, predecessor_account_id)
    THEN Panic(ERR_TOKEN_ACCOUNT, self)
    ELSE IF args.proposal = None
    THEN Panic("PROPOSAL_ID_NOT_PROVIDED", self)
    ELSE LET proposal_id == args.proposal[1] IN
         IF proposal_id \notin DOMAIN self.proposals
         THEN Panic("ERR_NO_PROPOSAL", self)
         ELSE LET proposal_obj == VersionedProposal_into(self.proposals[proposal_id]) IN
              IF proposal_obj.kind = "Donate"
              THEN LET donated == proposal_donate(proposal_obj, sender_id, amount) IN
                   Ok(self)
              ELSE Panic("PROPOSAL_IS_NOT_DONATION_KIND", self)

\* create_bounty_arm without the statement of lib.rs 172.
create_bounty_arm_no_store(self, predecessor_account_id, sender_id, amount, args) ==
    IF args.bounty_input = None
    THEN Panic("BOUNTY_INPUT_NOT_FOUND", self)
    ELSE LET bounty_unwrapped == args.bounty_input[1] IN
         IF ~assert_account_id(bounty_unwrapped.token, predecessor_account_id)
         THEN Panic(ERR_TOKEN_ACCOUNT, self)
         ELSE Ok(self)

\* create_bounty_arm checking the token account before unwrapping the
\* bounty input.
create_bounty_arm_check_first(self, predecessor_account_id, sender_id, amount, args) ==
    IF ~assert_account_id(self.token_account_id, predecessor_account_id)
    THEN Panic(ERR_TOKEN_ACCOUNT, self)
    ELSE IF args.bounty_input = None
    THEN Panic("BOUNTY_INPUT_NOT_FOUND", self)
    ELSE LET bounty_unwrapped == args.bounty_input[1] IN
         IF ~assert_account_id(bounty_unwrapped.token, predecessor_account_id)
         THEN Panic(ERR_TOKEN_ACCOUNT, self)
         ELSE Ok(create_bounty(self, bounty_unwrapped))

\* lib.rs 169-173.  The account handed to assert_account_id is the token
\* of the bounty; the configured token account is not consulted.
create_bounty_arm(self, predecessor_account_id, sender_id, amount, args) ==
    IF args.bounty_input = None
    THEN Panic("BOUNTY_INPUT_NOT_FOUND", self)
    ELSE LET bounty_unwrapped == args.bounty_input[1] IN
         IF ~assert_account_id(bounty_unwrapped.token, predecessor_account_id)
         THEN Panic(ERR_TOKEN_ACCOUNT, self)
         ELSE Ok(create_bounty(self, bounty_unwrapped))

\* ft_on_transfer_value handing the whole amount back.
ft_on_transfer_value_refund(amount) == Some(amount)

\* lib.rs 175: PromiseOrValue::Value(U128(0))
ft_on_transfer_value(amount) == Some(0)

\* lib.rs 142-174: the match on transfer_type.
dispatch(self, predecessor_account_id, sender_id, amount, args) ==
    CASE args.transfer_type = "Delegate" ->
             delegate_arm(self, predecessor_account_id, sender_id, amount, args)
      [] args.transfer_type = "OpenDonate" ->
             open_donate_arm(self, predecessor_account_id, sender_id, amount, args)
      [] args.transfer_type = "ProposalDonate" ->
             proposal_donate_arm(self, predecessor_account_id, sender_id, amount, args)
      [] args.transfer_type = "CreateBounty" ->
             create_bounty_arm(self, predecessor_account_id, sender_id, amount, args)

\* The end of the handler: the value of line 175 after an arm that ran to
\* its end, nothing after one that panicked.
acknowledge(r, amount) ==
    [panic |-> r.panic, self |-> r.self,
     value |-> IF r.panic = "" THEN ft_on_transfer_value(amount) ELSE None]

\* ft_on_transfer acknowledging a msg that does not decode instead of
\* panicking on it.
ft_on_transfer_lenient(self, predecessor_account_id, sender_id, amount, msg) ==
    IF ~from_str_ok(msg)
    THEN [panic |-> "", self |-> self, value |-> ft_on_transfer_value(amount)]
    ELSE acknowledge(dispatch(self, predecessor_account_id, sender_id, amount,
                              from_str(msg)),
                     amount)

\* lib.rs 134-176: decode, dispatch, acknowledge.
ft_on_transfer(self, predecessor_account_id, sender_id, amount, msg) ==
    IF ~from_str_ok(msg)
    THEN [panic |-> ERR_DECODE, self |-> self, value |-> None]
    ELSE acknowledge(dispatch(self, predecessor_account_id, sender_id, amount,
                              from_str(msg)),
                     amount)

\* The host keeps the writes of a call that returns and discards those of a
\* call that panics (all-or-nothing call semantics of the runtime).  That a
\* rejected call leaves the Contract as it was is this rule of the host,
\* whatever the handler wrote before it panicked; lib.rs adds nothing to it.
commit(before, result) == IF result.panic = "" THEN result.self ELSE before

----------------------------------------------------------------------------
(* Contract::migrate, lib.rs 94-103.  #[init(ignore_state)]: it runs       *)
(* whether or not the account holds state, and the Contract it returns is  *)
(* what gets persisted.  Its outcome carries the persisted state as an     *)
(* Option<Contract>.                                                       *)

ERR_NOT_ALLOWED == "ERR_NOT_ALLOWED"
ERR_NOT_INITIALIZED == "ERR_CONTRACT_IS_NOT_INITIALIZED"

\* env::state_read (lib.rs 101): None when the account holds no state,
\* else the persisted Contract, field by field.
state_read(storage) ==
    IF storage = None
    THEN None
    ELSE Some([dao_metadata |-> storage[1].dao_metadata,
               locked_amount |-> storage[1].locked_amount,
               token_account_id |-> storage[1].token_account_id,
               total_delegation_amount |-> storage[1].total_delegation_amount,
               delegations |-> storage[1].delegations,
               last_proposal_id |-> storage[1].last_proposal_id,
               proposals |-> storage[1].proposals,
               donations |-> storage[1].donations,
               owner_id |-> storage[1].owner_id,
               last_bounty_id |-> storage[1].last_bounty_id,
               bounties |-> storage[1].bounties])

\* migrate without the assert_eq of lib.rs 96-100.
migrate_unguarded(storage, predecessor_account_id, current_account_id) ==
    IF state_read(storage) = None
    THEN Panic(ERR_NOT_INITIALIZED, storage)
    ELSE Ok(state_read(storage))

\* migrate building a fresh Contract, as an initialiser usually does.
migrate_reset(storage, predecessor_account_id, current_account_id) ==
    IF predecessor_account_id # current_account_id
    THEN Panic(ERR_NOT_ALLOWED, storage)
    ELSE IF state_read(storage) = None
    THEN Panic(ERR_NOT_INITIALIZED, storage)
    ELSE Ok(Some(new(storage[1].dao_metadata, storage[1].token_account_id,
                     predecessor_account_id)))

\* lib.rs 94-103: the assert_eq on the caller, then the expect on
\* state_read; the value returned is what the host then persists.
migrate(storage, predecessor_account_id, current_account_id) ==
    IF predecessor_account_id # current_account_id
    THEN Panic(ERR_NOT_ALLOWED, storage)
    ELSE IF state_read(storage) = None
    THEN Panic(ERR_NOT_INITIALIZED, storage)
    ELSE Ok(state_read(storage))

----------------------------------------------------------------------------
(* The calls the environment makes. *)

\* The account the contract is deployed on (env::current_account_id).
CurrentAccountId == "dao.near"

\* msg strings that do not decode: not JSON, a required key missing, an
\* unknown purpose, a value of the wrong type under delegate and under
\* proposal, and an array that is too short.
BadMsgs ==
    {JInvalid,
     JObject([transfer_type |-> JString("Delegate")]),
     JObject([delegate |-> JString("alice.near")]),
     JObject([delegate |-> JString("alice.near"),
              transfer_type |-> JString("Withdraw")]),
     JObject([delegate |-> JNumber(5), transfer_type |-> JString("Delegate")]),
     JObject([delegate |-> JString("alice.near"), proposal |-> JString("0"),
              transfer_type |-> JString("ProposalDonate")]),
     JObject([delegate |-> JString("alice.near"), proposal |-> JNumber(-1),
              transfer_type |-> JString("ProposalDonate")]),
     JArray(<<JString("alice.near"), JNull, JString("Delegate")>>)}

TypeOK ==
    /\ locked_amount \in 0..BalanceMax
    /\ total_delegation_amount \in 0..BalanceMax
    /\ DOMAIN delegations \subseteq Users
    /\ DOMAIN donations \subseteq Users
    /\ state_exists \in BOOLEAN
    /\ state_exists => token_account_id \in TokenAccounts
    /\ ~state_exists => Self = NoContract
    /\ last_proposal_id \in 0..(MaxProposals + 1)
    /\ last_bounty_id \in 0..MaxBounties
    /\ overflow_checks \in BOOLEAN

\* The account with the code deployed, in a build of either kind, before
\* any call: it holds no state.
Init ==
    /\ dao_metadata = NoContract.dao_metadata
    /\ locked_amount = NoContract.locked_amount
    /\ token_account_id = NoContract.token_account_id
    /\ total_delegation_amount = NoContract.total_delegation_amount
    /\ delegations = NoContract.delegations
    /\ last_proposal_id = NoContract.last_proposal_id
    /\ proposals = NoContract.proposals
    /\ donations = NoContract.donations
    /\ owner_id = NoContract.owner_id
    /\ last_bounty_id = NoContract.last_bounty_id
    /\ bounties = NoContract.bounties
    /\ state_exists = FALSE
    /\ overflow_checks \in BOOLEAN
    /\ pre = NoContract
    /\ call = [op |-> "deploy", predecessor |-> "", sender_id |-> "",
               amount |-> 0, msg |-> JNull,
               panic |-> "", value |-> None, written |-> FALSE]

\* The Contract as persisted after a call; the build stays what it is.
Store(this) ==
    /\ state_exists' = TRUE
    /\ dao_metadata' = this.dao_metadata
    /\ locked_amount' = this.locked_amount
    /\ token_account_id' = this.token_account_id
    /\ total_delegation_amount' = this.total_delegation_amount
    /\ delegations' = this.delegations
    /\ last_proposal_id' = this.last_proposal_id
    /\ proposals' = this.proposals
    /\ donations' = this.donations
    /\ owner_id' = this.owner_id
    /\ last_bounty_id' = this.last_bounty_id
    /\ bounties' = this.bounties
    /\ overflow_checks' = overflow_checks

\* The state as persisted after a call of an initialiser: a Contract, or
\* still none.
StoreState(storage) ==
    IF storage # None
    THEN Store(storage[1])
    ELSE UNCHANGED <<dao_metadata, locked_amount, token_account_id,
                     total_delegation_amount, delegations, last_proposal_id,
                     proposals, donations, owner_id, last_bounty_id, bounties,
                     state_exists, overflow_checks>>

\* new called on the account, with its arguments drawn from the given sets:
\* it constructs the Contract on an account without state and is refused
\* on an account that has one.
NewWith(metadatas, token_contract_ids, deployers) ==
    \E metadata \in metadatas, token_contract_id \in token_contract_ids,
       deployer \in deployers :
        LET result == init_new(Storage, metadata, token_contract_id, deployer) IN
        /\ StoreState(commit(Storage, result))
        /\ pre' = Self
        /\ call' = [op |-> "new", predecessor |-> deployer, sender_id |-> "",
                    amount |-> 0,
                    msg |-> [metadata |-> metadata,
                             token_contract_id |-> token_contract_id],
                    panic |-> result.panic, value |-> None,
                    written |-> result.self # Storage]

New == NewWith(Metadatas, {ConfiguredToken}, Deployers)

\* The host after a call of ft_on_transfer that ended with the given
\* result: it keeps or drops what the handler wrote.
Returned(before, result, predecessor_account_id, sender_id, amount, msg) ==
    /\ Store(commit(before, result))
    /\ pre' = before
    /\ call' = [op |-> "ft_on_transfer", predecessor |-> predecessor_account_id,
                sender_id |-> sender_id, amount |-> amount, msg |-> msg,
                panic |-> result.panic, value |-> result.value,
                written |-> result.self # before]

\* One transfer notification, from any predecessor: the handler is a
\* method of the Contract (&mut self) and runs on the persisted one.
Transfer(predecessor_account_id, sender_id, amount, msg) ==
    /\ state_exists
    /\ Returned(Self,
                ft_on_transfer(Self, predecessor_account_id, sender_id, amount,
                               msg),
                predecessor_account_id, sender_id, amount, msg)

\* Delegate notifications from the configured token contract: every
\* amount to one delegate; to another delegate, with a message in array
\* form that also carries the fields Delegate does not read; and one
\* notification from another token contract.
FtDelegate ==
    \/ \E a \in Amounts :
         Transfer(token_account_id, "bob.near", a,
                  JObject([delegate |-> JString("alice.near"),
                           transfer_type |-> JString("Delegate")]))
    \/ Transfer(token_account_id, "alice.near", 1,
                JArray(<<JString("bob.near"), JNumber(0), JString("Delegate"),
                         JObject([token |-> JString(OtherToken)])>>))
    \/ Transfer(OtherToken, "alice.near", 1,
                JObject([delegate |-> JString("alice.near"),
                         transfer_type |-> JString("Delegate")]))

\* OpenDonate notifications from the configured token contract: every
\* amount; a message that names the purpose in object form and also
\* carries the fields OpenDonate does not read; and one notification from
\* another token contract.
FtOpenDonate ==
    \/ \E a \in Amounts :
         Transfer(token_account_id, "alice.near", a,
                  JObject([delegate |-> JString("alice.near"),
                           transfer_type |-> JString("OpenDonate")]))
    \/ Transfer(token_account_id, "alice.near", 1,
                JObject([delegate |-> JString("bob.near"), proposal |-> JNumber(0),
                         transfer_type |-> JObject([OpenDonate |-> JNull]),
                         bounty_input |-> JObject([token |-> JString(OtherToken)])]))
    \/ Transfer(OtherToken, "alice.near", 1,
                JObject([delegate |-> JString("alice.near"),
                         transfer_type |-> JString("OpenDonate")]))

\* ProposalDonate notifications from the configured token contract:
\* without the key proposal, with null under it, with every id of the given
\* set, and with another amount; and one from another token contract with
\* the id 0.
FtProposalDonateTo(ids) ==
    \/ Transfer(token_account_id, "alice.near", 1,
                JObject([delegate |-> JString("alice.near"),
                         transfer_type |-> JString("ProposalDonate")]))
    \/ Transfer(token_account_id, "alice.near", 1,
                JObject([delegate |-> JString("alice.near"), proposal |-> JNull,
                         transfer_type |-> JString("ProposalDonate")]))
    \/ \E id \in ids :
         Transfer(token_account_id, "alice.near", 1,
                  JObject([delegate |-> JString("alice.near"),
                           proposal |-> JNumber(id),
                           transfer_type |-> JString("ProposalDonate")]))
    \/ Transfer(token_account_id, "alice.near", 2,
                JObject([delegate |-> JString("alice.near"), proposal |-> JNumber(0),
                         transfer_type |-> JString("ProposalDonate")]))
    \/ Transfer(OtherToken, "alice.near", 1,
                JObject([delegate |-> JString("alice.near"), proposal |-> JNumber(0),
                         transfer_type |-> JString("ProposalDonate")]))

FtProposalDonate == FtProposalDonateTo(ProposalIds)

\* CreateBounty notifications, issued while fewer than the given number of
\* bounties exist.  From the configured token contract:
\* without the key bounty_input, and with a bounty for every token
\* account.  From another token contract: with null under bounty_input,
\* and with a bounty for every token account.
FtCreateBountyUpTo(limit) ==
    /\ last_bounty_id < limit
    /\ \/ Transfer(token_account_id, "alice.near", 1,
                   JObject([delegate |-> JString("alice.near"),
                            transfer_type |-> JString("CreateBounty")]))
       \/ Transfer(OtherToken, "alice.near", 1,
                   JObject([delegate |-> JString("alice.near"),
                            transfer_type |-> JString("CreateBounty"),
                            bounty_input |-> JNull]))
       \/ \E p \in TokenAccounts, t \in TokenAccounts :
            Transfer(p, "alice.near", 1,
                     JObject([delegate |-> JString("alice.near"),
                              transfer_type |-> JString("CreateBounty"),
                              bounty_input |-> JObject([token |-> JString(t)])]))

FtCreateBounty == FtCreateBountyUpTo(MaxBounties)

\* Notifications whose msg does not decode.
FtBadMsg ==
    \E m \in BadMsgs :
        Transfer(token_account_id, "alice.near", 1, m)

\* A proposal is added (proposals module), while fewer than the given
\* number exist.
AddProposalUpTo(limit) ==
    \E kind \in ProposalKinds :
        /\ state_exists
        /\ last_proposal_id < limit
        /\ Store(add_proposal(Self, kind))
        /\ pre' = Self
        /\ call' = [op |-> "add_proposal", predecessor |-> "", sender_id |-> "",
                    amount |-> 0, msg |-> [kind |-> kind],
                    panic |-> "", value |-> None, written |-> TRUE]

\* migrate called by the contract itself and by another account, on an
\* account with and without state.
Migrate ==
    \E p \in {CurrentAccountId, "alice.near"} :
        LET result == migrate(Storage, p, CurrentAccountId) IN
        /\ StoreState(commit(Storage, result))
        /\ pre' = Self
        /\ call' = [op |-> "migrate", predecessor |-> p, sender_id |-> "",
                    amount |-> 0, msg |-> JNull,
                    panic |-> result.panic, value |-> None,
                    written |-> result.self # Storage]

AddProposal == AddProposalUpTo(MaxProposals)

Next ==
    \/ New
    \/ FtDelegate
    \/ FtOpenDonate
    \/ FtProposalDonate
    \/ FtCreateBounty
    \/ FtBadMsg
    \/ AddProposal
    \/ Migrate

Spec == Init /\ [][Next]_vars

\* new called with every combination of arguments, with Delegate and
\* OpenDonate notifications and migrate calls.
ManyMetadatas == {"connesus", "other-dao"}
ManyDeployers == {"dao.near", "alice.near"}

NewMany == NewWith(ManyMetadatas, TokenAccounts, ManyDeployers)

NextNew ==
    \/ NewMany
    \/ FtDelegate
    \/ FtOpenDonate
    \/ Migrate

SpecNew == Init /\ [][NextNew]_vars

\* The notifications of every purpose on a Contract that holds up to one
\* proposal more and one bounty fewer than under Spec, with a
\* ProposalDonate notification for every stored id and for an unknown one.
MoreProposals == MaxProposals + 1
FewerBounties == MaxBounties - 1

AddProposalMore == AddProposalUpTo(MoreProposals)
FtProposalDonateMore == FtProposalDonateTo(0..MoreProposals)
FtCreateBountyFewer == FtCreateBountyUpTo(FewerBounties)

NextProposals ==
    \/ New
    \/ FtDelegate
    \/ FtOpenDonate
    \/ FtProposalDonateMore
    \/ FtCreateBountyFewer
    \/ FtBadMsg
    \/ AddProposalMore

SpecProposals == Init /\ [][NextProposals]_vars

----------------------------------------------------------------------------
(* Vocabulary of the properties: the last call and its decoded message.    *)

IsTransfer == call.op = "ft_on_transfer"
Constructed == call.op = "new" /\ call.panic = ""
Accepted == IsTransfer /\ call.panic = ""
Rejected == IsTransfer /\ call.panic # ""
CallArgs == from_str(call.msg)
Purpose(t) == IsTransfer /\ from_str_ok(call.msg) /\ CallArgs.transfer_type = t
FromConfiguredToken == call.predecessor = pre.token_account_id

MapsUnchanged ==
    /\ delegations = pre.delegations
    /\ donations = pre.donations
    /\ proposals = pre.proposals
    /\ bounties = pre.bounties

\* The donation a stored proposal records for an account (0 if none).
RecordedDonation(map, proposal_id, account_id) ==
    get_or(VersionedProposal_into(map[proposal_id]).donations, account_id, 0)

----------------------------------------------------------------------------
\* C1: an accepted Delegate transfer of amount A to delegate D raises
\* delegations[D] (0 if absent) and locked_amount by exactly A and leaves
\* every other delegations entry and the donations, proposals and bounties
\* maps as they were, whoever the sender is.
C1_DelegateEffect ==
    (Accepted /\ Purpose("Delegate")) =>
        LET D == CallArgs.delegate
            A == call.amount
        IN /\ D \in DOMAIN delegations
           /\ delegations[D] = get_or(pre.delegations, D, 0) + A
           /\ locked_amount = pre.locked_amount + A
           /\ DOMAIN delegations = DOMAIN pre.delegations \cup {D}
           /\ \A k \in DOMAIN delegations \ {D} : delegations[k] = pre.delegations[k]
           /\ donations = pre.donations
           /\ proposals = pre.proposals
           /\ bounties = pre.bounties

\* An accepted Delegate transfer, sent by someone other than the delegate,
\* to a delegate who already had a delegation.
C1_Witness ==
    /\ Accepted /\ Purpose("Delegate")
    /\ CallArgs.delegate \in DOMAIN pre.delegations
    /\ call.sender_id # CallArgs.delegate
    /\ DOMAIN pre.donations # {}

\* C2: a Delegate, OpenDonate or ProposalDonate notification that does not
\* come from the configured token account is rejected, and rejected before
\* the handler has written anything: the four maps, locked_amount and the
\* counters are those of before the call.
C2_ForeignTokenRejected ==
    (/\ \/ Purpose("Delegate")
        \/ Purpose("OpenDonate")
        \/ Purpose("ProposalDonate")
     /\ ~FromConfiguredToken) =>
        /\ Rejected
        /\ ~call.written
        /\ Self = pre

\* A ProposalDonate notification from another token contract to a stored
\* proposal of kind Donate, on a Contract that already holds credit: the
\* token account is the only reason to reject it.
C2_Witness ==
    /\ Purpose("ProposalDonate")
    /\ ~FromConfiguredToken
    /\ CallArgs.proposal # None
    /\ CallArgs.proposal[1] \in DOMAIN pre.proposals
    /\ VersionedProposal_into(pre.proposals[CallArgs.proposal[1]]).kind = "Donate"
    /\ call.panic = ERR_TOKEN_ACCOUNT
    /\ pre.locked_amount > 0

\* C3 (as claimed): an accepted ProposalDonate transfer of amount A from
\* sender S to proposal P raises the donation the stored proposal P
\* records for S by exactly A.
C3_DonationRecorded ==
    (Accepted /\ Purpose("ProposalDonate")) =>
        LET P == CallArgs.proposal[1]
            S == call.sender_id
        IN RecordedDonation(proposals, P, S)
               = RecordedDonation(pre.proposals, P, S) + call.amount

\* C4: an accepted OpenDonate transfer of amount A from sender S raises
\* donations[S] (0 if absent) by exactly A, whatever the delegate, proposal
\* and bounty_input fields of the message hold.
C4_OpenDonateEffect ==
    (Accepted /\ Purpose("OpenDonate")) =>
        LET S == call.sender_id IN
        /\ S \in DOMAIN donations
        /\ donations[S] = get_or(pre.donations, S, 0) + call.amount

\* An accepted OpenDonate transfer from a sender with an earlier donation,
\* whose message names another account as delegate and carries a proposal
\* id and a bounty input.
C4_Witness ==
    /\ Accepted /\ Purpose("OpenDonate")
    /\ call.sender_id \in DOMAIN pre.donations
    /\ CallArgs.delegate # call.sender_id
    /\ CallArgs.proposal # None
    /\ CallArgs.bounty_input # None

\* C6: a ProposalDonate call is rejected, the Contract unchanged and
\* nothing written, when the message has no proposal id (the key absent,
\* or null under it), when the id is
\* not a key of proposals, and when the proposal is not of kind Donate;
\* coming from the configured token account (the check that precedes
\* these three) the panic message is PROPOSAL_ID_NOT_PROVIDED,
\* ERR_NO_PROPOSAL and PROPOSAL_IS_NOT_DONATION_KIND respectively.  No
\* proposal of another kind records a donation.
C6_ProposalDonateRejections ==
    /\ Purpose("ProposalDonate") =>
         LET P == CallArgs.proposal
             missing == P = None
             unknown == P # None /\ P[1] \notin DOMAIN pre.proposals
             wrongKind == /\ P # None
                          /\ P[1] \in DOMAIN pre.proposals
                          /\ VersionedProposal_into(pre.proposals[P[1]]).kind # "Donate"
         IN /\ (missing \/ unknown \/ wrongKind) =>
                   (Rejected /\ ~call.written /\ Self = pre)
            /\ (FromConfiguredToken /\ missing) =>
                   call.panic = "PROPOSAL_ID_NOT_PROVIDED"
            /\ (FromConfiguredToken /\ unknown) =>
                   call.panic = "ERR_NO_PROPOSAL"
            /\ (FromConfiguredToken /\ wrongKind) =>
                   call.panic = "PROPOSAL_IS_NOT_DONATION_KIND"
    /\ \A id \in DOMAIN proposals :
         VersionedProposal_into(proposals[id]).kind # "Donate" =>
             VersionedProposal_into(proposals[id]).donations = EmptyMap

\* A ProposalDonate call from the configured token account to a stored
\* proposal of another kind.
C6_Witness ==
    /\ Purpose("ProposalDonate")
    /\ FromConfiguredToken
    /\ CallArgs.proposal # None
    /\ CallArgs.proposal[1] \in DOMAIN pre.proposals
    /\ VersionedProposal_into(pre.proposals[CallArgs.proposal[1]]).kind = "Other"
    /\ call.panic = "PROPOSAL_IS_NOT_DONATION_KIND"

\* C7: an accepted CreateBounty call stores exactly one new bounty, under
\* an id greater than the id of every bounty stored before; no call of any
\* kind, accepted or rejected, changes or removes a stored bounty, and
\* only an accepted CreateBounty call adds one.
C7_BountyIdsIncrease ==
    /\ \A id \in DOMAIN pre.bounties :
         id \in DOMAIN bounties /\ bounties[id] = pre.bounties[id]
    /\ (Accepted /\ Purpose("CreateBounty")) =>
         /\ Cardinality(DOMAIN bounties \ DOMAIN pre.bounties) = 1
         /\ \A fresh \in DOMAIN bounties \ DOMAIN pre.bounties :
              \A old \in DOMAIN pre.bounties : fresh > old
    /\ ~(Accepted /\ Purpose("CreateBounty")) =>
         DOMAIN bounties = DOMAIN pre.bounties

\* An accepted CreateBounty call on a Contract that already stored a bounty.
C7_Witness ==
    /\ Accepted /\ Purpose("CreateBounty")
    /\ DOMAIN pre.bounties # {}
    /\ Cardinality(DOMAIN bounties) = 2

\* C8 (as claimed): a CreateBounty call whose bounty names a token account
\* other than the configured one is rejected, with bounties and
\* last_bounty_id as they were; every stored bounty names the configured
\* token account.
C8_BountyTokenChecked ==
    /\ (/\ Purpose("CreateBounty")
        /\ CallArgs.bounty_input # None
        /\ CallArgs.bounty_input[1].token # pre.token_account_id) =>
           /\ Rejected
           /\ bounties = pre.bounties
           /\ last_bounty_id = pre.last_bounty_id
    /\ \A id \in DOMAIN bounties :
         bounties[id].bounty.token = token_account_id

\* C9: a CreateBounty call without a bounty_input (the key absent, or null
\* under it) is rejected with
\* BOUNTY_INPUT_NOT_FOUND, bounties and last_bounty_id unchanged, whoever
\* the predecessor is: no token account is examined before.
C9_MissingBountyInput ==
    (Purpose("CreateBounty") /\ CallArgs.bounty_input = None) =>
        /\ call.panic = "BOUNTY_INPUT_NOT_FOUND"
        /\ bounties = pre.bounties
        /\ last_bounty_id = pre.last_bounty_id

\* A CreateBounty call without a bounty_input that comes from a token
\* contract other than the configured one.
C9_Witness ==
    /\ Purpose("CreateBounty")
    /\ CallArgs.bounty_input = None
    /\ ~FromConfiguredToken
    /\ call.panic = "BOUNTY_INPUT_NOT_FOUND"

\* C10: an ft_on_transfer call that succeeds returns 0, whatever the
\* purpose, sender, amount and state; a call that is rejected returns
\* nothing.
C10_ReturnsZero ==
    /\ Accepted => call.value = Some(0)
    /\ Rejected => call.value = None

\* An accepted transfer of an amount of 2 acknowledged with 0.
C10_Witness ==
    /\ Accepted
    /\ call.amount = 2
    /\ call.value = Some(0)
    /\ call.written

\* The sum of the entries of a LookupMap of balances.
RECURSIVE MapSum(_)
MapSum(map) ==
    IF DOMAIN map = {} THEN 0
    ELSE LET k == CHOOSE x \in DOMAIN map : TRUE IN
         map[k] + MapSum([x \in DOMAIN map \ {k} |-> map[x]])

\* C11: an ft_on_transfer call whose msg does not decode to TransferArgs
\* (not JSON, a required key missing, an unknown purpose, a value of the
\* wrong type) panics on the decoding:
\* no arm runs, nothing is written, the Contract is as before and no
\* value is returned.
C11_BadMsgRejected ==
    (IsTransfer /\ ~from_str_ok(call.msg)) =>
        /\ call.panic = ERR_DECODE
        /\ ~call.written
        /\ Self = pre
        /\ call.value = None

\* A call whose msg names the purpose Delegate and gives a number as the
\* delegate, on a Contract that holds delegations, donations, a proposal
\* and a bounty.
C11_Witness ==
    /\ IsTransfer
    /\ call.msg = JObject([delegate |-> JNumber(5),
                           transfer_type |-> JString("Delegate")])
    /\ call.panic = ERR_DECODE
    /\ DOMAIN pre.delegations # {}
    /\ DOMAIN pre.donations # {}
    /\ DOMAIN pre.proposals # {}
    /\ DOMAIN pre.bounties # {}

\* C12: in every reachable state the entries of delegations sum to at
\* most total_delegation_amount.
C12_SumWithinTotal ==
    MapSum(delegations) <= total_delegation_amount

\* Two delegates hold a delegation after an accepted Delegate transfer.
C12_Witness ==
    /\ Accepted /\ Purpose("Delegate")
    /\ Cardinality(DOMAIN delegations) = 2
    /\ total_delegation_amount = 2

\* C13: new(metadata, token_contract_id) called by an account yields
\* empty delegations, proposals, donations and bounties, zero
\* locked_amount, total_delegation_amount, last_proposal_id and
\* last_bounty_id, the given metadata and token account, and the caller
\* as owner; that Contract is what the account persists.
C13_NewState ==
    Constructed =>
        /\ state_exists
        /\ delegations = EmptyMap
        /\ proposals = EmptyMap
        /\ donations = EmptyMap
        /\ bounties = EmptyMap
        /\ locked_amount = 0
        /\ total_delegation_amount = 0
        /\ last_proposal_id = 0
        /\ last_bounty_id = 0
        /\ dao_metadata = call.msg.metadata
        /\ token_account_id = call.msg.token_contract_id
        /\ owner_id = call.predecessor

\* A Contract just constructed by alice.near for the token wrap.near.
C13_Witness ==
    /\ Constructed
    /\ call.written
    /\ call.predecessor = "alice.near"
    /\ call.msg.token_contract_id = "wrap.near"
    /\ call.msg.metadata = "other-dao"
    /\ owner_id = "alice.near"

\* C14: migrate returns only when its caller is the contract's own
\* account, and panics with ERR_NOT_ALLOWED when it is another; called by
\* the contract itself it returns on an account that holds state and
\* panics with ERR_CONTRACT_IS_NOT_INITIALIZED on one that holds none.  In
\* every case the persisted state is what it was: the same Contract, field
\* by field, or still none.
C14_MigrateNoop ==
    call.op = "migrate" =>
        /\ call.panic = "" => call.predecessor = CurrentAccountId
        /\ call.predecessor # CurrentAccountId => call.panic = ERR_NOT_ALLOWED
        /\ call.predecessor = CurrentAccountId =>
               call.panic = (IF state_exists THEN "" ELSE ERR_NOT_INITIALIZED)
        /\ ~call.written
        /\ Self = pre
        /\ ~state_exists => Self = NoContract

\* migrate called by the contract itself on a Contract that holds
\* delegations, donations, a proposal and a bounty.
C14_Witness ==
    /\ call.op = "migrate"
    /\ call.panic = ""
    /\ locked_amount > 0
    /\ DOMAIN donations # {}
    /\ DOMAIN proposals # {}
    /\ DOMAIN bounties # {}

\* C15: locked_amount never decreases, and a step changes it only if it is
\* an accepted Delegate transfer: OpenDonate, ProposalDonate, CreateBounty,
\* migrate and every rejected call leave it as it was.
C15_LockedMonotone ==
    /\ locked_amount >= pre.locked_amount
    /\ locked_amount # pre.locked_amount => (Accepted /\ Purpose("Delegate"))

\* An accepted OpenDonate transfer on a Contract with a locked amount.
C15_Witness ==
    /\ Accepted /\ Purpose("OpenDonate")
    /\ pre.locked_amount > 0
    /\ locked_amount = pre.locked_amount
    /\ donations # pre.donations

\* C16: a key of delegations, donations, proposals or bounties stays a key
\* of that map after every call (ft_on_transfer, migrate), and no entry
\* of delegations or donations decreases.
C16_EntriesPersist ==
    /\ DOMAIN pre.delegations \subseteq DOMAIN delegations
    /\ DOMAIN pre.donations \subseteq DOMAIN donations
    /\ DOMAIN pre.proposals \subseteq DOMAIN proposals
    /\ DOMAIN pre.bounties \subseteq DOMAIN bounties
    /\ \A k \in DOMAIN pre.delegations : delegations[k] >= pre.delegations[k]
    /\ \A k \in DOMAIN pre.donations : donations[k] >= pre.donations[k]

\* An accepted CreateBounty transfer on a Contract whose four maps all
\* have a key.
C16_Witness ==
    /\ Accepted /\ Purpose("CreateBounty")
    /\ DOMAIN pre.delegations # {}
    /\ DOMAIN pre.donations # {}
    /\ DOMAIN pre.proposals # {}
    /\ DOMAIN pre.bounties # {}

\* C17: an accepted ProposalDonate call leaves every entry of donations as
\* it was, and an accepted OpenDonate call leaves every stored proposal,
\* its recorded donations included, as it was.
C17_LedgersSeparate ==
    /\ (Accepted /\ Purpose("ProposalDonate")) => donations = pre.donations
    /\ (Accepted /\ Purpose("OpenDonate")) => proposals = pre.proposals

\* An accepted ProposalDonate call from a sender who has an open donation.
C17_Witness ==
    /\ Accepted /\ Purpose("ProposalDonate")
    /\ call.sender_id \in DOMAIN pre.donations
    /\ call.amount = 1

\* C18: locked_amount is the sum of the amounts of the accepted Delegate
\* transfers (0 after new, raised by the amount by each of them, left
\* alone by every other call), and it is the sum of the entries of
\* delegations.
C18_LockedIsDelegated ==
    /\ Constructed => locked_amount = 0
    /\ ~Constructed =>
         locked_amount = pre.locked_amount
                         + (IF Accepted /\ Purpose("Delegate") THEN call.amount ELSE 0)
    /\ locked_amount = MapSum(delegations)

\* A second accepted Delegate transfer to the same delegate.
C18_Witness ==
    /\ Accepted /\ Purpose("Delegate")
    /\ CallArgs.delegate \in DOMAIN pre.delegations
    /\ locked_amount = 2
    /\ MapSum(delegations) = 2

\* C19: no ft_on_transfer call, accepted or rejected, changes
\* token_account_id, owner_id or dao_metadata, and in every reachable
\* state they are the values given to new.
C19_ConfigFixed ==
    /\ IsTransfer =>
         /\ token_account_id = pre.token_account_id
         /\ owner_id = pre.owner_id
         /\ dao_metadata = pre.dao_metadata
    /\ state_exists =>
         /\ token_account_id = ConfiguredToken
         /\ owner_id \in Deployers
         /\ dao_metadata \in Metadatas

\* An accepted Delegate transfer whose message also names another token
\* account in a bounty input.
C19_Witness ==
    /\ Accepted /\ Purpose("Delegate")
    /\ CallArgs.bounty_input # None
    /\ CallArgs.bounty_input[1].token # token_account_id

\* C20: an ft_on_transfer call neither creates nor removes a proposal: the
\* keys of proposals, the kind of each stored proposal and
\* last_proposal_id are as before; a ProposalDonate call changes at most
\* the donation record of the proposal it names, and a call of another
\* purpose changes no proposal.
C20_ProposalsKept ==
    IsTransfer =>
        /\ DOMAIN proposals = DOMAIN pre.proposals
        /\ last_proposal_id = pre.last_proposal_id
        /\ \A id \in DOMAIN proposals :
             /\ VersionedProposal_into(proposals[id]).kind
                    = VersionedProposal_into(pre.proposals[id]).kind
             /\ ~(/\ Purpose("ProposalDonate")
                  /\ CallArgs.proposal = Some(id)) =>
                    proposals[id] = pre.proposals[id]

\* An accepted ProposalDonate call of amount 2 that names the first of two
\* stored proposals, both of kind Donate.
C20_Witness ==
    /\ Accepted /\ Purpose("ProposalDonate")
    /\ call.amount = 2
    /\ CallArgs.proposal = Some(0)
    /\ DOMAIN pre.proposals = {0, 1}
    /\ VersionedProposal_into(pre.proposals[1]).kind = "Donate"
    /\ proposals[1] = pre.proposals[1]

====
